---- MODULE Spec2Model ----
(***************************************************************************)
(* Layered layout of a process graph: buildLayout of the WorkflowGraph     *)
(* component (Kahn-style leveling, column placement, fallback placement).  *)
(* A behaviour of Spec is one invocation of buildLayout on one input; a     *)
(* behaviour of SpecRerender is a sequence of renders of WorkflowGraph,    *)
(* each of which invokes buildLayout on the props of that render.          *)
(* A behaviour of SpecDiamond is one invocation on the diamond process; a  *)
(* behaviour of SpecPage is a sequence of handler runs of the page (Home)  *)
(* that mounts the component.                                              *)
(***************************************************************************)
EXTENDS Integers, Sequences, FiniteSets, TLC

VARIABLES
    steps, deps,                          \* process.steps, process.dependencies
    bottleneckStepIds, criticalPathSteps, \* the highlight props
    adjOut, inDeg, queue, head, level, levelGroups, positions, \* buildLayout's locals
    nodes, edges,                         \* what the render derives
    pc,                                   \* position inside the render
    render,                               \* which render of the component this is
    memo,                                 \* what the previous render was given and produced
    nodesState, edgesState,               \* useNodesState / useEdgesState: the displayed graph
    effectDeps,                           \* the dependency array of the last effect run
    processes, selected, analysis, recommendations, simResult, risk,
    analyzing, analyzeError, activeSection, \* the state of the page (Home)
    requests,                             \* the api.analyze calls in flight
    event                                 \* the handler of the page that ran last

props == <<steps, deps, bottleneckStepIds, criticalPathSteps>>
locals == <<adjOut, inDeg, queue, head, level, levelGroups>>
display == <<nodesState, edgesState, effectDeps>>
graph == <<steps, deps, bottleneckStepIds, criticalPathSteps, adjOut, inDeg, queue,
           head, level, levelGroups, positions, nodes, edges, pc, render, memo,
           nodesState, edgesState, effectDeps>>
results == <<analysis, recommendations, risk>>
page == <<processes, selected, analysis, recommendations, simResult, risk, analyzing,
          analyzeError, activeSection, requests, event>>
vars == <<steps, deps, bottleneckStepIds, criticalPathSteps, adjOut, inDeg, queue,
          head, level, levelGroups, positions, nodes, edges, pc, render, memo,
          nodesState, edgesState, effectDeps, processes, selected, analysis,
          recommendations, simResult, risk, analyzing, analyzeError, activeSection,
          requests, event>>

\* ---------------------------------------------------------------- bounds
\* A process has at most MaxSteps steps and MaxDeps dependencies, and at most
\* MaxGraph steps and dependencies together.
MaxSteps == 3
MaxDeps == 3
MaxGraph == 6

\* ------------------------------------------------------ layout constants
NODE_W == 200
NODE_H == 100
GAP_X == 60
GAP_Y == 60

\* ------------------------------------------------- JavaScript Map values
\* A Map is the sequence of its entries [k, v] in insertion order (the order
\* Map.entries() and Map.keys() iterate in).
EmptyMap == <<>>

\* Op applied to the value of v: v is evaluated once, however often Op uses it.
Once(v, Op(_)) == CHOOSE r \in {Op(x) : x \in {v}} : TRUE

\* m.has(key)
MapHas(m, key) == \E e \in {m} : \E i \in 1..Len(e) : e[i].k = key

\* m.get(key) ?? dflt
MapGet(m, key, dflt) ==
    LET Get(e) == IF \E i \in 1..Len(e) : e[i].k = key
                  THEN e[CHOOSE i \in 1..Len(e) : e[i].k = key].v
                  ELSE dflt
    IN Once(m, Get)

\* m.set(key, val): overwrite in place, or append a new entry
MapSet(m, key, val) ==
    LET Set(e) == IF \E i \in 1..Len(e) : e[i].k = key
                  THEN [i \in 1..Len(e) |->
                           IF e[i].k = key THEN [k |-> key, v |-> val] ELSE e[i]]
                  ELSE Append(e, [k |-> key, v |-> val])
    IN Once(m, Set)

MapKeys(m) == {m[i].k : i \in 1..Len(m)}

SetMax(S) == CHOOSE x \in S : \A y \in S : y <= x

\* ------------------------------------------------------------ the inputs
\* Step ids are opaque keys to buildLayout (only compared for equality), so
\* the step list of n steps carries the ids 1, ..., n in that order; id 0 is
\* the id of no step (the endpoint of a dangling dependency).
StepName(i) == "s" \o ToString(i)

ProcessStep(i) ==
    [id |-> i, name |-> StepName(i), duration_minutes |-> 1, cost_per_execution |-> 1,
     resource_count |-> 1, sla_limit_minutes |-> 1, executions_per_day |-> 1]

StepList(n) == [i \in 1..n |-> ProcessStep(i)]

Dependency(n) == [source_step_id : 0..n, target_step_id : 0..n]

StepIds(ss) == {ss[i].id : i \in 1..Len(ss)}
StepNames(ss) == {ss[i].name : i \in 1..Len(ss)}

\* --------------------------------------------------------- buildLayout
\* for (const s of steps) { adjOut.set(s.id, []); inDeg.set(s.id, 0); }
RECURSIVE InitMaps(_, _, _)
InitMaps(ss, i, g) ==
    LET Body(m) ==
            IF i > Len(ss) THEN m
            ELSE InitMaps(ss, i + 1,
                          [adjOut |-> MapSet(m.adjOut, ss[i].id, <<>>),
                           inDeg  |-> MapSet(m.inDeg, ss[i].id, 0)])
    IN Once(g, Body)

\* for (const d of deps) { adjOut.get(src)?.push(tgt); inDeg.set(tgt, (inDeg.get(tgt) ?? 0) + 1); }
RECURSIVE AddDeps(_, _, _)
AddDeps(ds, i, g) ==
    LET Body(m) ==
            IF i > Len(ds) THEN m
            ELSE LET src == ds[i].source_step_id
                     tgt == ds[i].target_step_id
                 IN AddDeps(ds, i + 1,
                            [adjOut |-> IF MapHas(m.adjOut, src)
                                        THEN MapSet(m.adjOut, src,
                                                    Append(MapGet(m.adjOut, src, <<>>), tgt))
                                        ELSE m.adjOut,
                             inDeg  |-> MapSet(m.inDeg, tgt, MapGet(m.inDeg, tgt, 0) + 1)])
    IN Once(g, Body)

\* Mutant: a seed test that also admits in-degree 1.
IsSeedLoose(deg) == deg <= 1

\* if (deg === 0) queue.push(id)
IsSeed(deg) == deg = 0

\* Mutant: every identifier with an in-degree entry is seeded.
SeedQueueAll(deg, i, q) == [j \in 1..Len(deg) |-> deg[j].k]

\* for (const [id, deg] of inDeg.entries()) { if (deg === 0) queue.push(id); }
RECURSIVE SeedQueue(_, _, _)
SeedQueue(deg, i, q) ==
    IF i > Len(deg) THEN q
    ELSE SeedQueue(deg, i + 1, IF IsSeed(deg[i].v) THEN Append(q, deg[i].k) ELSE q)

\* Mutant: the level groups of the previous invocation are kept.
StaleLevelGroups == levelGroups

\* const levelGroups: Map<number, number[]> = new Map()
NewLevelGroups == EmptyMap

\* Mutant: the position map of the previous call is reused.
StalePositions == positions

\* const positions: Map<number, { x: number; y: number }> = new Map()
NewPositions == EmptyMap

\* Lines 245-259: the state on entry to the while loop.
BuildGraph(ss, ds) ==
    LET Entry(g) == [adjOut |-> g.adjOut, inDeg |-> g.inDeg,
                     queue |-> SeedQueue(g.inDeg, 1, <<>>), head |-> 0,
                     level |-> EmptyMap, levelGroups |-> NewLevelGroups]
    IN Once(AddDeps(ds, 1, InitMaps(ss, 1, [adjOut |-> EmptyMap, inDeg |-> EmptyMap])),
            Entry)

\* Mutant: the level of a child counts the dependencies relaxed into it.
NextLevelCount(held, lvl) == held + 1

\* Mutant: a level, once set, is kept (the level of the first parent seen).
NextLevelFirst(held, lvl) == IF held > 0 THEN held ELSE lvl + 1

\* Mutant: the child takes its parent's level, without the + 1.
NextLevelNoStep(held, lvl) == IF held >= lvl THEN held ELSE lvl

\* level.set(next, Math.max(level.get(next) ?? 0, lvl + 1))
NextLevel(held, lvl) == IF held >= lvl + 1 THEN held ELSE lvl + 1

\* Mutant: a child is enqueued while one of its dependencies is still open.
ReadyEarly(deg) == deg <= 1

\* Mutant: a child is enqueued each time a dependency into it is relaxed.
ReadyAlways(deg) == deg >= 0

\* if (inDeg.get(next) === 0) queue.push(next)
Ready(deg) == deg = 0

\* for (const next of (adjOut.get(id) ?? [])) { ... }
RECURSIVE Relax(_, _, _, _)
Relax(outs, i, lvl, st) ==
    LET Body(t) ==
            IF i > Len(outs) THEN t
            ELSE LET next == outs[i]
                     deg  == MapGet(t.inDeg, next, 1) - 1
                 IN Relax(outs, i + 1, lvl,
                          [t EXCEPT !.inDeg = MapSet(t.inDeg, next, deg),
                                    !.level = MapSet(t.level, next,
                                                     NextLevel(MapGet(t.level, next, 0), lvl)),
                                    !.queue = IF Ready(deg) THEN Append(t.queue, next)
                                              ELSE t.queue])
    IN Once(st, Body)

\* One iteration of while (head < queue.length), lines 262-271.
LoopBody(st) ==
    LET Body(t) ==
            LET id  == t.queue[t.head + 1]
                lvl == MapGet(t.level, id, 0)
                grp == Append(MapGet(t.levelGroups, lvl, <<>>), id)
            IN Relax(MapGet(t.adjOut, id, <<>>), 1, lvl,
                     [t EXCEPT !.head = t.head + 1,
                               !.levelGroups = MapSet(t.levelGroups, lvl, grp)])
    IN Once(st, Body)

LoopCond(st) == st.head < Len(st.queue)

\* const maxLevel = Math.max(...Array.from(levelGroups.keys()), 0)
MaxLevel(groups) == SetMax(MapKeys(groups) \cup {0})

\* Mutant: the columns are set apart by the node width without the gap.
ColumnXNoGap(lvl) == lvl * NODE_W

\* Mutant: columns grow to the left.
ColumnXMirrored(lvl) == 0 - lvl * (NODE_W + GAP_X)

\* x: lvl * (NODE_W + GAP_X)
ColumnX(lvl) == lvl * (NODE_W + GAP_X)

\* Mutant: the stack height counts a gap below the last node.
RowYGapped(i, n) == i * (NODE_H + GAP_Y) - ((n * (NODE_H + GAP_Y)) \div 2)

\* Mutant: the bucket is stacked downwards from y = 0 and not centred.
RowYUncentred(i, n) == i * (NODE_H + GAP_Y)

\* Mutant: the bucket is stacked bottom-up.
RowYReversed(i, n) ==
    (n - 1 - i) * (NODE_H + GAP_Y) - ((n * (NODE_H + GAP_Y) - GAP_Y) \div 2)

\* y: i * (NODE_H + GAP_Y) - totalH / 2, totalH = n * (NODE_H + GAP_Y) - GAP_Y.
\* totalH = 160 n - 60 is even, so the real division by 2 is exact.
RowY(i, n) ==
    LET totalH == n * (NODE_H + GAP_Y) - GAP_Y
    IN i * (NODE_H + GAP_Y) - (totalH \div 2)

\* Mutant: the members of a bucket are counted from 1.
RECURSIVE PlaceGroupFromOne(_, _, _, _)
PlaceGroupFromOne(group, i, lvl, pos) ==
    IF i > Len(group) THEN pos
    ELSE PlaceGroupFromOne(group, i + 1, lvl,
                           MapSet(pos, group[i],
                                  [x |-> ColumnX(lvl), y |-> RowY(i, Len(group))]))

\* Mutant: the members of a bucket are stacked by ascending id, which is
\* their order in the input step list.
RECURSIVE PlaceGroupByRank(_, _, _, _)
PlaceGroupByRank(group, i, lvl, pos) ==
    IF i > Len(group) THEN pos
    ELSE PlaceGroupByRank(group, i + 1, lvl,
                          MapSet(pos, group[i],
                                 [x |-> ColumnX(lvl),
                                  y |-> RowY(Cardinality({j \in 1..Len(group) :
                                                            group[j] < group[i]}),
                                             Len(group))]))

\* group.forEach((id, i) => positions.set(id, {x, y}))
RECURSIVE PlaceGroup(_, _, _, _)
PlaceGroup(group, i, lvl, pos) ==
    IF i > Len(group) THEN pos
    ELSE PlaceGroup(group, i + 1, lvl,
                    MapSet(pos, group[i],
                           [x |-> ColumnX(lvl), y |-> RowY(i - 1, Len(group))]))

\* for (let lvl = 0; lvl <= maxLevel; lvl++) { ... }, lines 282-291
RECURSIVE PlaceLevels(_, _, _)
PlaceLevels(groups, lvl, pos) ==
    IF lvl > MaxLevel(groups) THEN pos
    ELSE PlaceLevels(groups, lvl + 1,
                     PlaceGroup(MapGet(groups, lvl, <<>>), 1, lvl, pos))

\* Mutant: the fallback columns start at the last traversal column.
FallbackXAtMax(maxLevel, fallbackIdx) == (maxLevel + fallbackIdx) * (NODE_W + GAP_X)

\* Mutant: every fallback step lands in the same column.
FallbackXSame(maxLevel, fallbackIdx) == (maxLevel + 1) * (NODE_W + GAP_X)

\* x of the fallbackIdx-th step the traversal left without a position
FallbackX(maxLevel, fallbackIdx) == (maxLevel + 1 + fallbackIdx) * (NODE_W + GAP_X)

\* Mutant: no fallback placement.
PlaceFallbackNone(ss, i, maxLevel, fallbackIdx, pos) == pos

\* for (const s of steps) { if (!positions.has(s.id)) { ...; fallbackIdx++ } }
RECURSIVE PlaceFallback(_, _, _, _, _)
PlaceFallback(ss, i, maxLevel, fallbackIdx, pos) ==
    LET Body(m) ==
            IF i > Len(ss) THEN m
            ELSE IF MapHas(m, ss[i].id)
                 THEN PlaceFallback(ss, i + 1, maxLevel, fallbackIdx, m)
                 ELSE PlaceFallback(ss, i + 1, maxLevel, fallbackIdx + 1,
                                    MapSet(m, ss[i].id,
                                           [x |-> FallbackX(maxLevel, fallbackIdx), y |-> 0]))
    IN Once(pos, Body)

\* The whole of the while loop.
RECURSIVE RunLoop(_)
RunLoop(st) ==
    LET Body(t) == IF LoopCond(t) THEN RunLoop(LoopBody(t)) ELSE t
    IN Once(st, Body)

\* buildLayout(steps, deps): the returned position map.
buildLayout(ss, ds) ==
    LET Position(st) == PlaceFallback(ss, 1, MaxLevel(st.levelGroups), 0,
                                      PlaceLevels(st.levelGroups, 0, NewPositions))
    IN Once(RunLoop(BuildGraph(ss, ds)), Position)

\* ---------------------------------------------------------- WorkflowGraph
NoPosition == [x |-> 0, y |-> 0]

\* Mutant: the column is stretched by the step's duration.
NodePositionScaled(pos, s) ==
    [x |-> MapGet(pos, s.id, [x |-> 0, y |-> 0]).x * s.duration_minutes,
     y |-> MapGet(pos, s.id, [x |-> 0, y |-> 0]).y]

\* const pos = positions.get(s.id) ?? { x: 0, y: 0 }
NodePosition(pos, s) == MapGet(pos, s.id, NoPosition)

\* Lines 312-329: process.steps.map((s) => ({ id, type, position, data }))
StepNode(s, pos, bottleneck, critical) ==
    [id |-> ToString(s.id),
     type |-> "step",
     position |-> NodePosition(pos, s),
     data |-> [name |-> s.name,
               duration_minutes |-> s.duration_minutes,
               cost_per_execution |-> s.cost_per_execution,
               executions_per_day |-> s.executions_per_day,
               resource_count |-> s.resource_count,
               sla_limit_minutes |-> s.sla_limit_minutes,
               isBottleneck |-> s.id \in bottleneck,
               isCritical |-> s.name \in critical]]

\* Mutant: an edge is styled by the bottleneck state of its target.
DepEdgeByTarget(d, bottleneck) ==
    LET isBotEdge == d.target_step_id \in bottleneck
    IN [id |-> "e-" \o ToString(d.source_step_id) \o "-" \o ToString(d.target_step_id),
        source |-> ToString(d.source_step_id),
        target |-> ToString(d.target_step_id),
        type |-> "smoothstep",
        animated |-> isBotEdge,
        stroke |-> IF isBotEdge THEN "#dc2626" ELSE "#94a3b8",
        strokeWidth |-> IF isBotEdge THEN "2.5" ELSE "1.5"]

\* Lines 331-345: process.dependencies.map((d) => ({ id, source, target, ... }))
DepEdge(d, bottleneck) ==
    LET isBotEdge == d.source_step_id \in bottleneck
    IN [id |-> "e-" \o ToString(d.source_step_id) \o "-" \o ToString(d.target_step_id),
        source |-> ToString(d.source_step_id),
        target |-> ToString(d.target_step_id),
        type |-> "smoothstep",
        animated |-> isBotEdge,
        stroke |-> IF isBotEdge THEN "#dc2626" ELSE "#94a3b8",
        strokeWidth |-> IF isBotEdge THEN "2.5" ELSE "1.5"]

\* ------------------------------------------------------------ the machine
LoopState ==
    [adjOut |-> adjOut, inDeg |-> inDeg, queue |-> queue, head |-> head,
     level |-> level, levelGroups |-> levelGroups]

SetLoopState(st) ==
    \E t \in {st} :
        /\ adjOut' = t.adjOut
        /\ inDeg' = t.inDeg
        /\ queue' = t.queue
        /\ head' = t.head
        /\ level' = t.level
        /\ levelGroups' = t.levelGroups

NoMemo == <<>>

\* ------------------------------------------------------------------ Home
\* The page holds processes by id; the version of a process counts the edits
\* it has gone through (every edit hands the page a new Process object).
\* The server lists at most MaxProcesses processes, the listed processes go
\* through at most MaxEdits edits, at most MaxRequests analyze requests are in
\* flight, and processes, edits and requests together number at most MaxPage.
MaxProcesses == 2
MaxEdits == 1
MaxRequests == 1
MaxPage == 4

NoProcess == [id |-> 0, version |-> 0]

PageProcess(i, v) == [id |-> i, version |-> v]

\* What api.listProcesses() resolves to when the server holds n processes.
ListedProcesses(n) == [i \in 1..n |-> PageProcess(i, 0)]

Section ==
    {"editor", "workflow", "kpis", "utilization", "risk", "recommendations",
     "simulation", "advanced"}

NoAnalysis == [of |-> NoProcess, bottlenecks |-> <<>>, critical_path |-> <<>>]
NoRisk == [of |-> NoProcess]
NoSimResult == [of |-> NoProcess]
NoError == ""

\* What the server answers to api.analyze for a process: the field "of" records
\* which process, in which version, the answer was computed for; res.risk may
\* be absent.
AnalyzeResponses(proc) ==
    {[analysis |-> [of |-> proc, bottlenecks |-> <<[step_id |-> proc.id]>>,
                    critical_path |-> <<StepName(proc.id)>>],
      recommendations |-> <<[of |-> proc]>>,
      risk |-> r] : r \in {NoRisk, [of |-> proc]}}

\* Lines 48-60: the initial state of the page.
HomeMounted ==
    /\ processes = <<>>
    /\ selected = NoProcess
    /\ analysis = NoAnalysis
    /\ recommendations = <<>>
    /\ simResult = NoSimResult
    /\ risk = NoRisk
    /\ analyzing = FALSE
    /\ analyzeError = NoError
    /\ activeSection = "editor"
    /\ requests = <<>>
    /\ event = "mount"

\* Before the first render nothing is displayed and no effect has run.
NoDeps == <<>>

Unmounted == nodesState = <<>> /\ edgesState = <<>> /\ effectDeps = NoDeps

\* The first render of the component on a process of at most maxSteps steps
\* and maxDeps dependencies, nothing highlighted.
FirstRender(maxSteps, maxDeps) ==
    /\ \E n \in 0..maxSteps, m \in 0..maxDeps :
        /\ n + m <= MaxGraph
        /\ steps = StepList(n)
        /\ deps \in [1..m -> Dependency(n)]
    /\ bottleneckStepIds = {}
    /\ criticalPathSteps = {}
    /\ adjOut = EmptyMap
    /\ inDeg = EmptyMap
    /\ queue = <<>>
    /\ head = 0
    /\ level = EmptyMap
    /\ levelGroups = EmptyMap
    /\ positions = EmptyMap
    /\ nodes = <<>>
    /\ edges = <<>>
    /\ pc = "start"
    /\ render = "first"
    /\ memo = NoMemo
    /\ Unmounted
    /\ HomeMounted

Init == FirstRender(MaxSteps, MaxDeps)

\* Lines 245-259
Build ==
    /\ pc = "start"
    /\ SetLoopState(BuildGraph(steps, deps))
    /\ pc' = "loop"
    /\ UNCHANGED <<props, positions, nodes, edges, render, memo, display, page>>

\* Lines 261-272, one iteration
Dequeue ==
    /\ pc = "loop"
    /\ LoopCond(LoopState)
    /\ SetLoopState(LoopBody(LoopState))
    /\ UNCHANGED <<props, positions, nodes, edges, pc, render, memo, display, page>>

\* Lines 274-291
Place ==
    /\ pc = "loop"
    /\ ~LoopCond(LoopState)
    /\ positions' = PlaceLevels(levelGroups, 0, NewPositions)
    /\ pc' = "fallback"
    /\ UNCHANGED <<props, locals, nodes, edges, render, memo, display, page>>

\* Lines 293-302
Fallback ==
    /\ pc = "fallback"
    /\ positions' = PlaceFallback(steps, 1, MaxLevel(levelGroups), 0, positions)
    /\ pc' = "done"
    /\ UNCHANGED <<props, locals, nodes, edges, render, memo, display, page>>

Next == Build \/ Dequeue \/ Place \/ Fallback

Spec == Init /\ [][Next]_vars

\* buildLayout runs to completion once called: it is synchronous code.
FairSpec ==
    /\ FirstRender(MaxSteps - 1, MaxDeps - 1)
    /\ [][Next]_vars
    /\ WF_vars(Next)

\* ------------------------------------------------------------ re-renders
\* Array.prototype.join
RECURSIVE Join(_, _)
Join(strs, sep) ==
    IF strs = <<>> THEN ""
    ELSE IF Len(strs) = 1 THEN strs[1]
    ELSE strs[1] \o sep \o Join(Tail(strs), sep)

\* [...set].sort(): the members of the set in an order that depends on the set
\* alone. The effect compares the joined strings for equality only, so which
\* total order sort() uses does not matter.
Sorted(S) == CHOOSE q \in [1..Cardinality(S) -> S] : {q[i] : i \in DOMAIN q} = S

\* Mutant: the key of a step also carries its cost.
StepKeyWithCost(s) ==
    ToString(s.id) \o ":" \o s.name \o ":" \o ToString(s.duration_minutes)
        \o ":" \o ToString(s.cost_per_execution)

\* `${s.id}:${s.name}:${s.duration_minutes}`
StepKey(s) == ToString(s.id) \o ":" \o s.name \o ":" \o ToString(s.duration_minutes)

\* `${d.source_step_id}->${d.target_step_id}`
DepKey(d) == ToString(d.source_step_id) \o "->" \o ToString(d.target_step_id)

\* Lines 353-358: the dependency array of the effect.
EffectDeps(ss, ds, bottleneck, critical) ==
    << Join([i \in 1..Len(ss) |-> StepKey(ss[i])], "|"),
       Join([i \in 1..Len(ds) |-> DepKey(ds[i])], "|"),
       Join([i \in 1..Cardinality(bottleneck) |-> ToString(Sorted(bottleneck)[i])], ","),
       Join(Sorted(critical), ",") >>

\* Lines 310-358, one render of WorkflowGraph after buildLayout has returned:
\* the nodes and edges of this render are derived; on the first render they
\* are the initial value of the displayed graph (useNodesState(nodes),
\* useEdgesState(edges)); the effect copies them into the displayed graph
\* when its dependency array differs from the one of the previous render.
DeriveGraph ==
    /\ pc = "done"
    /\ nodes' = [i \in 1..Len(steps) |->
                   StepNode(steps[i], positions, bottleneckStepIds, criticalPathSteps)]
    /\ edges' = [i \in 1..Len(deps) |-> DepEdge(deps[i], bottleneckStepIds)]
    /\ effectDeps' = EffectDeps(steps, deps, bottleneckStepIds, criticalPathSteps)
    /\ IF effectDeps = NoDeps \/ effectDeps' # effectDeps
       THEN nodesState' = nodes' /\ edgesState' = edges'
       ELSE UNCHANGED <<nodesState, edgesState>>
    /\ pc' = "rendered"
    /\ UNCHANGED <<props, locals, positions, render, memo, page>>

Snapshot == [steps |-> steps, deps |-> deps, positions |-> positions, nodes |-> nodes]

RemoveAt(seq, i) == [j \in 1..(Len(seq) - 1) |-> IF j < i THEN seq[j] ELSE seq[j + 1]]

\* The component is rendered again with the same props. The objects of the
\* previous invocation of buildLayout are garbage; the new invocation
\* constructs its own.
RenderSame ==
    /\ pc = "rendered"
    /\ render \in {"first", "edited"}
    /\ memo' = Snapshot
    /\ render' = "same"
    /\ pc' = "start"
    /\ UNCHANGED <<props, locals, positions, nodes, edges, display, page>>

\* The component is rendered again after an edit of the process: a dependency
\* added or deleted, a step added, or the last step deleted.
RenderEdited ==
    /\ pc = "rendered"
    /\ render = "first"
    /\ \/ \E d \in Dependency(Len(steps)) :
              /\ deps' = Append(deps, d)
              /\ steps' = steps
       \/ \E i \in 1..Len(deps) :
              /\ deps' = RemoveAt(deps, i)
              /\ steps' = steps
       \/ /\ Len(steps) < MaxSteps
          /\ steps' = Append(steps, ProcessStep(Len(steps) + 1))
          /\ deps' = deps
       \/ /\ Len(steps) > 0
          /\ steps' = RemoveAt(steps, Len(steps))
          /\ deps' = deps
    /\ memo' = Snapshot
    /\ render' = "edited"
    /\ pc' = "start"
    /\ UNCHANGED <<bottleneckStepIds, criticalPathSteps, locals, positions, nodes, edges, display, page>>

\* The edit is undone: the component is rendered again on the process it was
\* rendered on before the edit.
RenderReverted ==
    /\ pc = "rendered"
    /\ render = "edited"
    /\ steps' = memo.steps
    /\ deps' = memo.deps
    /\ render' = "reverted"
    /\ pc' = "start"
    /\ UNCHANGED <<bottleneckStepIds, criticalPathSteps, locals, positions, nodes,
                   edges, memo, display, page>>

\* The steps with one attribute of one step changed (the id is not an attribute).
Reattributed(ss) ==
    UNION {{[ss EXCEPT ![i].name = "renamed"],
            [ss EXCEPT ![i].duration_minutes = @ + 1],
            [ss EXCEPT ![i].cost_per_execution = @ + 1],
            [ss EXCEPT ![i].resource_count = @ + 1],
            [ss EXCEPT ![i].sla_limit_minutes = @ + 1],
            [ss EXCEPT ![i].executions_per_day = @ + 1]} : i \in 1..Len(ss)}

\* The component is rendered again with the same step ids and dependencies,
\* and another bottleneck set, critical-path set or step attribute.
RenderRestyled ==
    /\ pc = "rendered"
    /\ render = "first"
    /\ \/ /\ bottleneckStepIds' \in (SUBSET StepIds(steps)) \ {bottleneckStepIds}
          /\ UNCHANGED <<steps, criticalPathSteps>>
       \/ /\ criticalPathSteps' \in (SUBSET StepNames(steps)) \ {criticalPathSteps}
          /\ UNCHANGED <<steps, bottleneckStepIds>>
       \/ /\ steps' \in Reattributed(steps)
          /\ UNCHANGED <<bottleneckStepIds, criticalPathSteps>>
    /\ memo' = Snapshot
    /\ render' = "restyled"
    /\ pc' = "start"
    /\ UNCHANGED <<deps, locals, positions, nodes, edges, display, page>>

NextRerender ==
    Build \/ Dequeue \/ Place \/ Fallback \/ DeriveGraph
        \/ RenderSame \/ RenderEdited \/ RenderReverted \/ RenderRestyled

SpecRerender == FirstRender(MaxSteps - 1, MaxDeps - 2) /\ [][NextRerender]_vars

\* ------------------------------------------------------ the page machine
\* Lines 140-141
bottleneckIds(a) == {a.bottlenecks[i].step_id : i \in 1..Len(a.bottlenecks)}
criticalPathSet(a) == {a.critical_path[i] : i \in 1..Len(a.critical_path)}

\* Lines 62-67: api.listProcesses() resolves.
listProcesses ==
    /\ event = "mount"
    /\ \E n \in 0..MaxProcesses : processes' = ListedProcesses(n)
    /\ event' = "listProcesses"
    /\ UNCHANGED <<graph, selected, results, simResult, analyzing, analyzeError,
                   activeSection, requests>>

\* Lines 79-87, called from the process selector (lines 174-181) with a
\* process of the list or with null.
selectProcess ==
    /\ \E p \in {processes[i] : i \in 1..Len(processes)} \cup {NoProcess} :
           selected' = p
    /\ analysis' = NoAnalysis
    /\ recommendations' = <<>>
    /\ simResult' = NoSimResult
    /\ risk' = NoRisk
    /\ analyzeError' = NoError
    /\ activeSection' = "editor"
    /\ event' = "selectProcess"
    /\ UNCHANGED <<graph, processes, analyzing, requests>>

\* The number of edits the listed processes have gone through.
RECURSIVE Edits(_)
Edits(list) == IF list = <<>> THEN 0 ELSE Head(list).version + Edits(Tail(list))

PageLoad == Len(processes) + Edits(processes) + Len(requests)

\* Lines 89-93: handleAnalyze up to the await.
handleAnalyze ==
    /\ Len(requests) < MaxRequests
    /\ PageLoad < MaxPage
    /\ IF selected = NoProcess
       THEN /\ event' = "handleAnalyze: no process"
            /\ UNCHANGED <<analyzing, analyzeError, requests>>
       ELSE /\ analyzing' = TRUE
            /\ analyzeError' = NoError
            /\ requests' = Append(requests, selected)
            /\ event' = "handleAnalyze"
    /\ UNCHANGED <<graph, processes, selected, results, simResult, activeSection>>

\* Mutant: a settled request leaves the page as it was, analyzing.
SettledStuck == analyzing

\* Line 102: finally { setAnalyzing(false) }
Settled == FALSE

\* The versions of the process of a request that the server may have analyzed:
\* the one the request was sent for, or one that an edit has produced since.
Analyzed(req) ==
    {PageProcess(req.id, v) :
        v \in {req.version} \cup
              {processes[i].version : i \in {j \in 1..Len(processes) :
                                                /\ processes[j].id = req.id
                                                /\ processes[j].version > req.version}}}

\* Lines 94-98 and 102: the request resolves.
AnalyzeResolved ==
    /\ \E i \in 1..Len(requests) :
          /\ requests' = RemoveAt(requests, i)
          /\ \E proc \in Analyzed(requests[i]) : \E res \in AnalyzeResponses(proc) :
                 /\ analysis' = res.analysis
                 /\ recommendations' = res.recommendations
                 /\ risk' = res.risk
    /\ activeSection' = "kpis"
    /\ analyzing' = Settled
    /\ event' = "analyze resolved"
    /\ UNCHANGED <<graph, processes, selected, simResult, analyzeError>>

\* Lines 99-102: the request fails.
AnalyzeRejected ==
    /\ \E i \in 1..Len(requests) : requests' = RemoveAt(requests, i)
    /\ analyzeError' = "Analysis failed"
    /\ analyzing' = Settled
    /\ event' = "analyze rejected"
    /\ UNCHANGED <<graph, processes, selected, results, simResult, activeSection>>

\* The processes of the list with the one of updated's id replaced by updated.
ReplaceProcess(list, updated) ==
    [i \in 1..Len(list) |-> IF list[i].id = updated.id THEN updated ELSE list[i]]

\* Mutant: an edit keeps the analysis.
ClearedByUpdateKept(a) == a

\* Line 109: setAnalysis(null)
ClearedByUpdate(a) == NoAnalysis

\* Lines 106-113, called by the ProcessEditor (line 359) with the edited
\* version of the selected process.
handleUpdate ==
    /\ selected # NoProcess
    /\ activeSection = "editor"
    /\ Edits(processes) < MaxEdits
    /\ PageLoad < MaxPage
    /\ selected' = PageProcess(selected.id, selected.version + 1)
    /\ processes' = ReplaceProcess(processes, selected')
    /\ analysis' = ClearedByUpdate(analysis)
    /\ recommendations' = <<>>
    /\ risk' = NoRisk
    /\ simResult' = NoSimResult
    /\ event' = "handleUpdate"
    /\ UNCHANGED <<graph, analyzing, analyzeError, activeSection, requests>>

\* Lines 115-120, called by the ProcessEditor (line 359).
handleDelete ==
    /\ selected # NoProcess
    /\ activeSection = "editor"
    /\ processes' = SelectSeq(processes, LAMBDA q : q.id # selected.id)
    /\ selected' = NoProcess
    /\ event' = "handleDelete"
    /\ UNCHANGED <<graph, results, simResult, analyzing, analyzeError, activeSection, requests>>

\* Line 434: the SimulationForm reports the result of a simulation of the
\* selected process.
setSimResult ==
    /\ selected # NoProcess
    /\ activeSection = "simulation"
    /\ simResult' = [of |-> selected]
    /\ event' = "setSimResult"
    /\ UNCHANGED <<graph, processes, selected, results, analyzing, analyzeError,
                   activeSection, requests>>

\* Lines 285 and 330: a navigation item is clicked.
setActiveSection ==
    /\ \E item \in Section \ {activeSection} : activeSection' = item
    /\ event' = "setActiveSection"
    /\ UNCHANGED <<graph, processes, selected, results, simResult, analyzing, analyzeError,
                   requests>>

NextPage ==
    \/ listProcesses \/ selectProcess \/ handleAnalyze \/ AnalyzeResolved
    \/ AnalyzeRejected \/ handleUpdate \/ handleDelete \/ setSimResult
    \/ setActiveSection

\* The page on its own: the WorkflowGraph it mounts is left out.
SpecPage == FirstRender(0, 0) /\ [][NextPage]_vars

\* ---------------------------------------------------------------- diamond
\* The diamond process: steps A, B, C, D (ids 1, 2, 3, 4) and the dependencies
\* A -> B, A -> C, B -> D, C -> D.
DiamondEdges ==
    << [source_step_id |-> 1, target_step_id |-> 2],
       [source_step_id |-> 1, target_step_id |-> 3],
       [source_step_id |-> 2, target_step_id |-> 4],
       [source_step_id |-> 3, target_step_id |-> 4] >>

\* The dependency list of the diamond, in any order of its four rows.
DiamondDeps ==
    {ds \in [DOMAIN DiamondEdges -> {DiamondEdges[i] : i \in DOMAIN DiamondEdges}] :
        \A i, j \in DOMAIN ds : ds[i] = ds[j] => i = j}

\* The first render of WorkflowGraph with the diamond process.
DiamondRender ==
    /\ steps = StepList(Len(DiamondEdges))
    /\ deps \in DiamondDeps
    /\ bottleneckStepIds = {}
    /\ criticalPathSteps = {}
    /\ adjOut = EmptyMap
    /\ inDeg = EmptyMap
    /\ queue = <<>>
    /\ head = 0
    /\ level = EmptyMap
    /\ levelGroups = EmptyMap
    /\ positions = EmptyMap
    /\ nodes = <<>>
    /\ edges = <<>>
    /\ pc = "start"
    /\ render = "first"
    /\ memo = NoMemo
    /\ Unmounted
    /\ HomeMounted

SpecDiamond == DiamondRender /\ [][Next]_vars

\* ------------------------------------------------------------ properties
Returned == pc \in {"done", "rendered"}

Abs(n) == IF n < 0 THEN -n ELSE n

\* The identifiers the traversal has dequeued so far.
Dequeued == {queue[i] : i \in 1..head}

\* The level under which a dequeued identifier was grouped.
GroupLevel(id) ==
    levelGroups[CHOOSE g \in 1..Len(levelGroups) :
                    \E j \in 1..Len(levelGroups[g].v) : levelGroups[g].v[j] = id].k

PosOf(id) == MapGet(positions, id, NoPosition)

KeysDistinct(m) == \A i, j \in 1..Len(m) : m[i].k = m[j].k => i = j

DepSet == {deps[i] : i \in 1..Len(deps)}

Dangling(d) ==
    \/ d.source_step_id \notin StepIds(steps)
    \/ d.target_step_id \notin StepIds(steps)

\* The steps no dependency targets.
ZeroInDegree == {s \in StepIds(steps) : \A d \in DepSet : d.target_step_id # s}

\* The identifiers reachable from S along dependencies.
RECURSIVE ReachableFrom(_)
ReachableFrom(S) ==
    LET T == S \cup {d.target_step_id : d \in {e \in DepSet : e.source_step_id \in S}}
    IN IF T = S THEN S ELSE ReachableFrom(T)

\* The identifiers reachable from id along at least one dependency.
Successors(id) ==
    ReachableFrom({d.target_step_id : d \in {e \in DepSet : e.source_step_id = id}})

Acyclic == \A d \in DepSet : d.source_step_id \notin Successors(d.source_step_id)

\* The number of edges of the longest path that ends at id (acyclic graphs).
RECURSIVE LongestPath(_)
LongestPath(id) ==
    LET parents == {d.source_step_id : d \in {e \in DepSet : e.target_step_id = id}}
    IN IF parents = {} THEN 0
       ELSE 1 + SetMax({LongestPath(u) : u \in parents})

\* C1: when buildLayout returns, the position map has exactly one entry per
\* input step and no entry for any other identifier.
C1_Completeness ==
    Returned => /\ MapKeys(positions) = StepIds(steps)
                /\ KeysDistinct(positions)

\* C2: every invocation of buildLayout terminates, and on return every input
\* step has a position (cyclic input included).
AllPlaced == pc = "done" /\ \A s \in StepIds(steps) : MapHas(positions, s)

C2_Termination == <>AllPlaced

C2_Witness ==
    /\ pc = "done"
    /\ Len(steps) = 2
    /\ deps = <<[source_step_id |-> 1, target_step_id |-> 2],
                [source_step_id |-> 2, target_step_id |-> 1]>>
    /\ MapHas(positions, 1) /\ MapHas(positions, 2)

\* C3 as stated: for every dependency (u, v) whose endpoints are both
\* reachable from some zero-in-degree step, x(u) < x(v).
C3_ReachableLeftToRight ==
    Returned =>
        \A d \in DepSet :
            ( /\ {d.source_step_id, d.target_step_id} \subseteq ReachableFrom(ZeroInDegree)
              /\ MapHas(positions, d.source_step_id)
              /\ MapHas(positions, d.target_step_id) )
            => PosOf(d.source_step_id).x < PosOf(d.target_step_id).x

\* C3 amended: for every dependency (u, v) whose endpoints were both dequeued
\* by the leveling traversal, x(u) < x(v), whatever else the input contains.
C3_DequeuedLeftToRight ==
    Returned =>
        \A d \in DepSet :
            {d.source_step_id, d.target_step_id} \subseteq Dequeued
            => PosOf(d.source_step_id).x < PosOf(d.target_step_id).x

\* A dependency between two dequeued steps, next to a cycle or a dangling edge.
C3_Witness ==
    /\ Returned
    /\ \E d \in DepSet :
          /\ {d.source_step_id, d.target_step_id} \subseteq Dequeued
          /\ ~Dangling(d)
    /\ \E d \in DepSet : Dangling(d) \/ d.target_step_id \notin Dequeued

\* C4: no two distinct steps overlap: in the same column they are at least
\* NODE_H + GAP_Y apart, in different columns at least NODE_W + GAP_X apart.
C4_NonOverlap ==
    Returned =>
        \A a, b \in StepIds(steps) :
            a # b =>
                IF PosOf(a).x = PosOf(b).x
                THEN Abs(PosOf(a).y - PosOf(b).y) >= NODE_H + GAP_Y
                ELSE Abs(PosOf(a).x - PosOf(b).x) >= NODE_W + GAP_X

\* Two steps share a column, and another step was placed by the fallback.
C4_Witness ==
    /\ Returned
    /\ \E a, b \in StepIds(steps) \cap Dequeued : a # b /\ PosOf(a).x = PosOf(b).x
    /\ StepIds(steps) \ Dequeued # {}

SameIds(ss, tt) == /\ Len(ss) = Len(tt)
                   /\ \A i \in 1..Len(ss) : ss[i].id = tt[i].id

\* C5: an invocation with the same steps and dependencies as an earlier
\* invocation returns the same position map, whatever that invocation and the
\* ones between the two left behind.
C5_Determinism ==
    (Returned /\ memo # NoMemo /\ memo.steps = steps /\ memo.deps = deps)
        => positions = memo.positions

\* The same process was laid out a second time, after an invocation on an
\* edited process; the invocations grouped steps and returned two positions
\* or more.
C5_Witness ==
    /\ Returned
    /\ render = "reverted"
    /\ memo.steps = steps /\ memo.deps = deps
    /\ Len(positions) >= 2
    /\ levelGroups # EmptyMap

\* The dependencies whose endpoints are both input steps.
RECURSIVE WithoutDangling(_)
WithoutDangling(ds) ==
    IF ds = <<>> THEN <<>>
    ELSE IF Head(ds).source_step_id \in StepIds(steps)
            /\ Head(ds).target_step_id \in StepIds(steps)
         THEN <<Head(ds)>> \o WithoutDangling(Tail(ds))
         ELSE WithoutDangling(Tail(ds))

\* C6: the position of every input step is the position buildLayout returns
\* for it when the dangling dependencies are removed from the input.
C6_DanglingIgnored ==
    Returned =>
        LET clean == buildLayout(steps, WithoutDangling(deps))
        IN \A s \in StepIds(steps) :
               /\ MapHas(positions, s)
               /\ PosOf(s) = MapGet(clean, s, NoPosition)

\* C7: for acyclic input without dangling dependencies, the column index of
\* every step is the length of the longest path that ends at it, and every
\* step is strictly to the right of all its parents.
C7_LongestPath ==
    (Returned /\ (\A d \in DepSet : ~Dangling(d)) /\ Acyclic) =>
        /\ \A s \in StepIds(steps) :
               PosOf(s).x = LongestPath(s) * (NODE_W + GAP_X)
        /\ \A d \in DepSet : PosOf(d.source_step_id).x < PosOf(d.target_step_id).x

\* A step with two parents in different columns.
C7_Witness ==
    /\ Returned /\ Acyclic /\ \A d \in DepSet : ~Dangling(d)
    /\ \E d, e \in DepSet :
          /\ d.target_step_id = e.target_step_id
          /\ PosOf(d.source_step_id).x < PosOf(e.source_step_id).x

\* C8: for every dependency (u, v) with u and v both dequeued, v is grouped
\* under a strictly greater level than u.
C8_StrictLevelIncrease ==
    \A d \in DepSet :
        {d.source_step_id, d.target_step_id} \subseteq Dequeued
        => GroupLevel(d.target_step_id) >= GroupLevel(d.source_step_id) + 1

\* A dequeued step two levels below a dequeued parent of level 0.
C8_Witness ==
    \E d \in DepSet :
        /\ {d.source_step_id, d.target_step_id} \subseteq Dequeued
        /\ GroupLevel(d.source_step_id) = 0
        /\ GroupLevel(d.target_step_id) = 2

\* C9: a render with the same step ids and the same dependencies as the
\* previous one, whatever the highlight sets and the step attributes, gives
\* every step the position it had.
C9_GeometryIndependent ==
    (pc = "rendered" /\ memo # NoMemo /\ SameIds(memo.steps, steps) /\ memo.deps = deps)
        => /\ positions = memo.positions
           /\ \A i \in 1..Len(nodes) : nodes[i].position = memo.nodes[i].position

\* Rendered again with another attribute or another highlight set.
C9_Witness ==
    /\ pc = "rendered"
    /\ render = "restyled"
    /\ Len(nodes) >= 2
    /\ \/ memo.steps # steps
       \/ bottleneckStepIds # {}
       \/ criticalPathSteps # {}

\* C10: for an empty step list buildLayout returns an empty position map,
\* whatever the dependency list contains.
C10_EmptyInput == (Returned /\ steps = <<>>) => positions = EmptyMap

C10_Witness == pc = "done" /\ steps = <<>> /\ Len(deps) >= 2 /\ positions = EmptyMap

\* The index of step id in the input step list.
InputIndex(id) == CHOOSE i \in 1..Len(steps) : steps[i].id = id

\* C11: with no dependencies every step is at x = 0 and the i-th step
\* (0-indexed) of n is at y = i (H + Gy) - (n (H + Gy) - Gy) / 2, so the steps
\* are stacked in input order.
C11_NoEdges ==
    (Returned /\ deps = <<>>) =>
        /\ \A i \in 1..Len(steps) :
               /\ MapHas(positions, steps[i].id)
               /\ PosOf(steps[i].id).x = 0
               /\ 2 * PosOf(steps[i].id).y = 2 * (i - 1) * 160 - (Len(steps) * 160 - 60)
        /\ \A i, j \in 1..Len(steps) :
               i < j => PosOf(steps[i].id).y < PosOf(steps[j].id).y

\* Three steps, no dependency.
C11_Witness ==
    /\ pc = "done"
    /\ deps = <<>>
    /\ Len(steps) = 3
    /\ PosOf(1).y < PosOf(2).y /\ PosOf(2).y < PosOf(3).y

\* The diamond's dependency rows are in the order A->B, A->C, B->D, C->D.
DiamondAsListed == steps = StepList(Len(DiamondEdges)) /\ deps = DiamondEdges

\* C12: in the diamond the levels are A = 0, B = 1, C = 1, D = 2, the
\* x-coordinates are 0, 260, 260 and 520, and B and C are at least 160 apart
\* vertically.
C12_Diamond ==
    Returned =>
        /\ GroupLevel(1) = 0 /\ GroupLevel(2) = 1
        /\ GroupLevel(3) = 1 /\ GroupLevel(4) = 2
        /\ PosOf(1).x = 0 /\ PosOf(2).x = 260
        /\ PosOf(3).x = 260 /\ PosOf(4).x = 520
        /\ Abs(PosOf(2).y - PosOf(3).y) >= 160

C12_Witness ==
    /\ pc = "done"
    /\ DiamondAsListed
    /\ Dequeued = {1, 2, 3, 4}
    /\ PosOf(4).x = 520

\* C13 as stated: in the diamond y(B) = -y(C).
C13_DiamondSymmetricY == Returned => PosOf(2).y = 0 - PosOf(3).y

\* C13 as amended: in the diamond the boxes of B and C mirror each other in
\* the line y = 0: the top edge of the upper one is at -(the bottom edge of
\* the lower one), i.e. y(B) + y(C) + H = 0.
C13_DiamondSymmetricBoxes ==
    Returned => PosOf(2).y + PosOf(3).y + 100 = 0

C13_Witness ==
    /\ pc = "done"
    /\ DiamondAsListed
    /\ PosOf(2).y = 0 - 130
    /\ PosOf(3).y = 30

\* C14: in the derived graph, node i has isBottleneck exactly when the id of
\* step i is in the bottleneck set and isCritical exactly when its name is in
\* the critical-path set; edge i is animated and red exactly when the source
\* of dependency i is in the bottleneck set, whatever its target.
C14_StyleFlags ==
    pc = "rendered" =>
        /\ Len(nodes) = Len(steps)
        /\ \A i \in 1..Len(steps) :
               /\ nodes[i].data.isBottleneck <=> steps[i].id \in bottleneckStepIds
               /\ nodes[i].data.isCritical <=> steps[i].name \in criticalPathSteps
        /\ Len(edges) = Len(deps)
        /\ \A i \in 1..Len(deps) :
               /\ edges[i].animated <=> deps[i].source_step_id \in bottleneckStepIds
               /\ edges[i].stroke = "#dc2626" <=> deps[i].source_step_id \in bottleneckStepIds
               /\ edges[i].stroke \in {"#dc2626", "#94a3b8"}

\* A red edge into a step that is no bottleneck, and a bottleneck node next
\* to one that is none.
C14_Witness ==
    /\ pc = "rendered"
    /\ \E i \in 1..Len(deps) :
           /\ deps[i].source_step_id \in bottleneckStepIds
           /\ deps[i].target_step_id \in StepIds(steps) \ bottleneckStepIds
           /\ edges[i].animated
    /\ \E i, j \in 1..Len(nodes) :
           nodes[i].data.isBottleneck /\ ~nodes[j].data.isBottleneck

\* A node on the critical path next to one that is not.
C14_WitnessCritical ==
    /\ pc = "rendered"
    /\ \E i, j \in 1..Len(nodes) :
           nodes[i].data.isCritical /\ ~nodes[j].data.isCritical

\* The steps the traversal never dequeued.
NeverDequeued == StepIds(steps) \ Dequeued

\* C15: every step the traversal never dequeues still gets a position, and
\* its x is strictly greater than the x of every step the traversal placed.
C15_FallbackRight ==
    Returned =>
        \A s \in NeverDequeued :
            /\ MapHas(positions, s)
            /\ \A t \in StepIds(steps) \cap Dequeued : PosOf(s).x > PosOf(t).x

\* Two steps on a cycle that hangs off a step the traversal placed in the
\* second column.
C15_Witness ==
    /\ pc = "done"
    /\ ~Acyclic
    /\ \E s \in NeverDequeued : \E t \in StepIds(steps) \cap Dequeued :
           PosOf(t).x > 0 /\ PosOf(s).x > PosOf(t).x

Range(seq) == {seq[i] : i \in 1..Len(seq)}

\* The number of dependencies that target id and whose source is an input step.
RestrictedInDegree(id) ==
    Cardinality({i \in 1..Len(deps) :
        /\ deps[i].target_step_id = id
        /\ deps[i].source_step_id \in StepIds(steps)})

\* C16: the adjacency lists and the in-degree counts use only dependencies
\* whose two endpoints are input steps: before the first dequeue the in-degree
\* of each step is the number of dependencies into it from an input step, and
\* no other identifier is ever in an adjacency list, the in-degree map, the
\* queue, a level group or the position map.
C16_RestrictedGraph ==
    /\ (pc = "loop" /\ head = 0) =>
           \A s \in StepIds(steps) : MapGet(inDeg, s, 0) = RestrictedInDegree(s)
    /\ \A i \in 1..Len(adjOut) : Range(adjOut[i].v) \subseteq StepIds(steps)
    /\ MapKeys(inDeg) \subseteq StepIds(steps)
    /\ Range(queue) \subseteq StepIds(steps)
    /\ \A g \in 1..Len(levelGroups) : Range(levelGroups[g].v) \subseteq StepIds(steps)
    /\ MapKeys(positions) \subseteq StepIds(steps)

\* The place of a dequeued identifier in the queue.
QueueIndex(id) == CHOOSE i \in 1..Len(queue) : queue[i] = id

SameLevel(a, b) == GroupLevel(a) = GroupLevel(b)

\* C17 as stated: two steps the traversal placed at the same level are
\* stacked in input order.
C17_InputOrder ==
    Returned =>
        \A a, b \in StepIds(steps) \cap Dequeued :
            (SameLevel(a, b) /\ InputIndex(a) < InputIndex(b))
                => PosOf(a).y < PosOf(b).y

\* C17 as amended: two steps the traversal placed at the same level are
\* stacked in the order in which they were dequeued, which at level 0 is the
\* input order.
C17_DequeueOrder ==
    Returned =>
        \A a, b \in StepIds(steps) \cap Dequeued :
            SameLevel(a, b) =>
                /\ QueueIndex(a) < QueueIndex(b) => PosOf(a).y < PosOf(b).y
                /\ (GroupLevel(a) = 0 /\ InputIndex(a) < InputIndex(b))
                       => PosOf(a).y < PosOf(b).y

\* Steps 2 and 3 both depend on step 1, and the dependency into 3 comes first:
\* 3 is dequeued before 2 and stacked above it.
C17_Witness ==
    /\ pc = "done"
    /\ Len(steps) = 3
    /\ deps = <<[source_step_id |-> 1, target_step_id |-> 3],
                [source_step_id |-> 1, target_step_id |-> 2]>>
    /\ GroupLevel(2) = 1 /\ GroupLevel(3) = 1
    /\ QueueIndex(3) < QueueIndex(2)
    /\ PosOf(3).y < PosOf(2).y

GroupOf(id) ==
    levelGroups[CHOOSE g \in 1..Len(levelGroups) : id \in Range(levelGroups[g].v)].v

\* The 0-based place of a dequeued identifier in its bucket.
GroupIndex(id) == (CHOOSE i \in 1..Len(GroupOf(id)) : GroupOf(id)[i] = id) - 1

\* C19: a step the traversal placed at level l as the i-th member (from 0) of
\* a bucket of n has x = 260 l and y = 160 i - T / 2 with T = 160 n - 60; T is
\* even, so the coordinates are integers.
C19_PositionFormula ==
    Returned =>
        \A s \in StepIds(steps) \cap Dequeued :
            LET l == GroupLevel(s)
                i == GroupIndex(s)
                T == Len(GroupOf(s)) * (100 + 60) - 60
            IN /\ PosOf(s).x = l * (200 + 60)
               /\ T % 2 = 0
               /\ 2 * PosOf(s).y = 2 * i * (100 + 60) - T

\* The second of two steps in the second column is at (260, 30).
C19_Witness ==
    /\ pc = "done"
    /\ \E s \in StepIds(steps) \cap Dequeued :
           /\ GroupLevel(s) = 1
           /\ GroupIndex(s) = 1
           /\ Len(GroupOf(s)) = 2
           /\ PosOf(s) = [x |-> 260, y |-> 30]

StepMaxLevel == SetMax({GroupLevel(s) : s \in StepIds(steps) \cap Dequeued} \cup {0})

\* The number of never-dequeued steps that precede s in the input step list.
FallbackRank(s) == Cardinality({t \in NeverDequeued : InputIndex(t) < InputIndex(s)})

\* C21: the k-th never-dequeued step, in input order and counted from 0, is
\* at x = (maxLevel + 1 + k) * 260 and y = 0, maxLevel being the highest level
\* of any dequeued step (0 if none); if no step has in-degree 0 the steps
\* occupy the columns 1, 2, ... in input order.
C21_FallbackPlacement ==
    Returned =>
        /\ \A s \in NeverDequeued :
               PosOf(s) = [x |-> (StepMaxLevel + 1 + FallbackRank(s)) * 260, y |-> 0]
        /\ (steps # <<>> /\ ZeroInDegree = {}) =>
               \A i \in 1..Len(steps) : PosOf(steps[i].id) = [x |-> i * 260, y |-> 0]

\* C21 restricted to inputs whose dependencies all have both endpoints in the
\* step list.
C21_FallbackPlacementNoDangling ==
    (\A d \in DepSet : ~Dangling(d)) => C21_FallbackPlacement

\* C22: after every render the displayed nodes and edges are the ones derived
\* from the props of that render.
C22_RerunOnChange ==
    pc = "rendered" => (nodesState = nodes /\ edgesState = edges)

\* The steps have the ids, names and durations they had at the previous render.
SameKeyAttributes ==
    /\ Len(steps) = Len(memo.steps)
    /\ \A i \in 1..Len(steps) :
           /\ steps[i].id = memo.steps[i].id
           /\ steps[i].name = memo.steps[i].name
           /\ steps[i].duration_minutes = memo.steps[i].duration_minutes

\* C28: a re-render refreshes the displayed graph exactly when a step's id,
\* name or duration, a dependency or a highlight set has changed; after a
\* change of another step attribute alone the displayed nodes are the ones of
\* the previous render.
C28_RefreshKey ==
    (pc = "rendered" /\ render = "restyled") =>
        IF SameKeyAttributes /\ bottleneckStepIds = {} /\ criticalPathSteps = {}
        THEN nodesState = memo.nodes /\ edgesState = edges
        ELSE nodesState = nodes /\ edgesState = edges

\* The cost of a step has changed and the displayed node shows the old cost.
C28_Witness ==
    /\ pc = "rendered"
    /\ render = "restyled"
    /\ SameKeyAttributes
    /\ \E i \in 1..Len(steps) :
           /\ steps[i].cost_per_execution # memo.steps[i].cost_per_execution
           /\ nodes[i].data.cost_per_execution = steps[i].cost_per_execution
           /\ nodesState[i].data.cost_per_execution = memo.steps[i].cost_per_execution

Computing == pc \in {"start", "loop", "fallback"}

\* C23: no step of buildLayout changes the step list or the dependency list,
\* and the working structures are created inside the call: the state on entry
\* to the loop and the position map before placement owe nothing to what an
\* earlier call left behind.
C23_Purity ==
    [][Computing =>
          /\ steps' = steps
          /\ deps' = deps
          /\ (pc = "start" /\ pc' = "loop") =>
                 /\ adjOut' = AddDeps(deps, 1, InitMaps(steps, 1,
                                  [adjOut |-> EmptyMap, inDeg |-> EmptyMap])).adjOut
                 /\ level' = EmptyMap
                 /\ levelGroups' = EmptyMap
                 /\ head' = 0
                 /\ \A i \in 1..Len(queue') : queue'[i] \in StepIds(steps)
          /\ (pc = "loop" /\ pc' = "fallback") =>
                 MapKeys(positions') = UNION {Range(levelGroups[g].v) :
                                                 g \in 1..Len(levelGroups)}]_vars

\* A second call on the same input, while the structures of the first call
\* are still around, has returned the same non-empty map.
C23_Witness ==
    /\ pc = "done"
    /\ render = "same"
    /\ steps = memo.steps /\ deps = memo.deps
    /\ Len(steps) >= 2
    /\ NeverDequeued # {}
    /\ positions = memo.positions

\* The dependency list with every repetition of a dependency removed.
RECURSIVE Dedup(_)
Dedup(ds) ==
    IF ds = <<>> THEN <<>>
    ELSE LET front == Dedup(SubSeq(ds, 1, Len(ds) - 1))
             last == ds[Len(ds)]
         IN IF last \in Range(front) THEN front ELSE Append(front, last)

\* C27: the x of every step is the x buildLayout returns for it when every
\* dependency is listed once, and every step has one entry in the position
\* map and is a member of at most one level group, once.
C27_DuplicateEdges ==
    Returned =>
        LET once == buildLayout(steps, Dedup(deps))
        IN /\ \A s \in StepIds(steps) :
                  /\ MapHas(positions, s)
                  /\ PosOf(s).x = MapGet(once, s, NoPosition).x
           /\ KeysDistinct(positions)
           /\ \A g, h \in 1..Len(levelGroups) :
                  \A i \in 1..Len(levelGroups[g].v), j \in 1..Len(levelGroups[h].v) :
                      levelGroups[g].v[i] = levelGroups[h].v[j] => (g = h /\ i = j)

\* A dependency listed twice, whose target is placed in the second column.
C27_Witness ==
    /\ pc = "done"
    /\ \E i, j \in 1..Len(deps) :
           /\ i < j
           /\ deps[i] = deps[j]
           /\ ~Dangling(deps[i])
           /\ deps[i].target_step_id \in Dequeued
           /\ PosOf(deps[i].target_step_id).x = 260

\* C29: no identifier is in the queue twice or in the level groups twice, and
\* no in-degree counter is negative, at any point of the traversal.
C29_QueueDiscipline ==
    /\ \A i, j \in 1..Len(queue) : queue[i] = queue[j] => i = j
    /\ \A id \in Range(queue) :
           Cardinality({<<g, i>> \in (1..Len(levelGroups)) \X (1..MaxSteps + 1) :
                           /\ i <= Len(levelGroups[g].v)
                           /\ levelGroups[g].v[i] = id})
               = IF id \in Dequeued THEN 1 ELSE 0
    /\ \A i \in 1..Len(inDeg) : inDeg[i].v >= 0

\* The traversal has ended on an input with a repeated dependency and a
\* self-loop or a dangling dependency.
C29_Witness ==
    /\ pc = "done"
    /\ \E i, j \in 1..Len(deps) : i < j /\ deps[i] = deps[j] /\ deps[i].target_step_id \in Dequeued
    /\ \E d \in DepSet : Dangling(d) \/ d.source_step_id = d.target_step_id

\* C30: the level-map entry of an identifier that has been dequeued does not
\* change any more, so the level it is grouped under is its final level.
C30_LevelFinal ==
    [][pc = "loop" =>
          /\ \A id \in Dequeued :
                 /\ MapHas(level', id) <=> MapHas(level, id)
                 /\ MapGet(level', id, 0) = MapGet(level, id, 0)
          /\ \A id \in Dequeued' : GroupLevel(id)' = MapGet(level', id, 0)]_vars

\* Step 3 has parents at depths 0 and 1 and the dependency from the shallow
\* parent is listed first; it was dequeued last, at level 2.
C30_Witness ==
    /\ pc = "done"
    /\ Len(steps) = 3
    /\ deps = <<[source_step_id |-> 1, target_step_id |-> 3],
                [source_step_id |-> 1, target_step_id |-> 2],
                [source_step_id |-> 2, target_step_id |-> 3]>>
    /\ queue = <<1, 2, 3>>
    /\ GroupLevel(3) = 2
    /\ MapGet(level, 3, 0) = 2

\* C24: the analysis the page holds was computed for the selected process in
\* its current version, and so were the highlight sets passed to WorkflowGraph.
C24_AnalysisOfSelected ==
    /\ analysis # NoAnalysis => analysis.of = selected
    /\ (bottleneckIds(analysis) # {} \/ criticalPathSet(analysis) # {})
           => analysis.of = selected

\* C25: a step of selectProcess or handleUpdate leaves analysis,
\* recommendations, risk and simulation result cleared and both highlight sets
\* empty; selectProcess also clears the analyze error and shows the editor;
\* and the highlight sets stay empty until an analyze request succeeds.
C25_ResetOnSelectOrEdit ==
    [][/\ event' \in {"selectProcess", "handleUpdate"} =>
             /\ analysis' = NoAnalysis
             /\ recommendations' = <<>>
             /\ risk' = NoRisk
             /\ simResult' = NoSimResult
             /\ bottleneckIds(analysis') = {}
             /\ criticalPathSet(analysis') = {}
       /\ event' = "selectProcess" =>
             /\ analyzeError' = NoError
             /\ activeSection' = "editor"
       /\ (analysis = NoAnalysis /\ event' # "analyze resolved") =>
             /\ analysis' = NoAnalysis
             /\ bottleneckIds(analysis') = {}
             /\ criticalPathSet(analysis') = {}]_vars

\* The selected process has just been edited while an analyze request is in
\* flight, and nothing is highlighted.
C25_Witness ==
    /\ event = "handleUpdate"
    /\ selected.version > 0
    /\ requests # <<>>
    /\ analysis = NoAnalysis
    /\ bottleneckIds(analysis) = {}

\* C26: a step that starts a request leaves analyzing true; a step in which a
\* request settles leaves it false; a failure sets analyzeError and keeps
\* analysis, recommendations, risk and the active section; a call without a
\* selected process changes no state of the page.
C26_AnalyzeOutcome ==
    [][/\ event' = "handleAnalyze" => (analyzing' /\ Len(requests') = Len(requests) + 1)
       /\ event' \in {"analyze resolved", "analyze rejected"} =>
             (~analyzing' /\ Len(requests') = Len(requests) - 1)
       /\ event' = "analyze rejected" =>
             /\ analyzeError' # NoError
             /\ UNCHANGED <<analysis, recommendations, risk, activeSection>>
       /\ event' = "handleAnalyze: no process" =>
             UNCHANGED <<processes, selected, analysis, recommendations, simResult,
                         risk, analyzing, analyzeError, activeSection, requests>>]_vars

\* A request has failed while the page holds the analysis of an earlier one.
C26_Witness ==
    /\ event = "analyze rejected"
    /\ analyzeError # NoError
    /\ ~analyzing
    /\ analysis # NoAnalysis
    /\ activeSection = "kpis"

====
